---- MODULE Spec2Model ----
(***************************************************************************)
(* A model of app.py, the parking price service: the response extractor    *)
(* (parse_gemini_json), the tariff store lookup (get_tariff), the pricing  *)
(* engine (compute_price) and the request handler (predict_parking_price). *)
(*                                                                         *)
(* Units.  Python floats are modelled by exact integers on fixed grids:    *)
(*   - datetimes have minute resolution: day is a day count whose day 0 is *)
(*     a Monday, minute is the minute of that day, utcoffset is in minutes *)
(*   - hourly_rate and daily_cap are in thousandths of the currency unit   *)
(*   - weekend_multiplier is in tenths                                     *)
(*   - billable hours are in sixtieths of an hour                          *)
(*   - a returned price is in hundredths (the result of round(price, 2))   *)
(* The one place where binary floating point decides an outcome, a value   *)
(* lying exactly halfway between two hundredths, is a choice (tieUp).      *)
(***************************************************************************)
EXTENDS Integers, Sequences, FiniteSets, TLC

VARIABLES
    TARIFFS,    \* the module global loaded from tariffs.json
    env,        \* per request: the HTTP body and what the provider will answer
    pc,         \* per request: the handler's position
    parsed,     \* per request: local parsed
    start_dt,   \* per request: local start_dt
    end_dt,     \* per request: local end_dt
    tariff,     \* per request: local tariff
    response,   \* per request: what the handler returned
    raised,     \* per request: the exception raised while handling it
    args,       \* function harness: the arguments of the call under test
    result      \* function harness: the locals and the outcome of that call

vars ==
    <<TARIFFS, env, pc, parsed, start_dt, end_dt, tariff, response, raised,
      args, result>>

requestVars == <<env, pc, parsed, start_dt, end_dt, tariff, response, raised>>

handlerVars == <<TARIFFS, requestVars>>

----------------------------------------------------------------------------
(* Python values *)

None == [kind |-> "None"]

\* a local that has not been assigned
Unset == [kind |-> "unset"]

\* a function call that returned v
Return(v) == [kind |-> "return", v |-> v]

\* a function call that raised an exception of class exc with message msg
Raise(exc, msg) == [kind |-> "raise", exc |-> exc, msg |-> msg]

\* a dict is a function from its keys; every other value carries a kind
IsDict(x) == "kind" \notin DOMAIN x

EmptyDict == [k \in {} |-> 0]

\* dict.get(key, default)
Get(d, key, default) == IF key \in DOMAIN d THEN d[key] ELSE default

----------------------------------------------------------------------------
(* parse_gemini_json.  A text is a sequence of tokens: white space, the    *)
(* fence markers (three backquotes followed by json, and three backquotes  *)
(* alone), the braces, a member name with its colon, a number, and a word  *)
(* of prose.                                                                *)

Tokens == {" ", "FENCE_JSON", "FENCE", "{", "}", "key:", "1", "word"}

RECURSIVE lstrip(_)
lstrip(text) ==
    IF text # <<>> /\ text[1] = " " THEN lstrip(Tail(text)) ELSE text

RECURSIVE rstrip(_)
rstrip(text) ==
    IF text # <<>> /\ text[Len(text)] = " "
    THEN rstrip(SubSeq(text, 1, Len(text) - 1)) ELSE text

\* line 41: str.strip()
strip(text) == rstrip(lstrip(text))

\* lines 43-44: a leading json fence marker is cut off
drop_json_fence(text) ==
    IF text # <<>> /\ text[1] = "FENCE_JSON" THEN Tail(text) ELSE text

\* lines 45-46: three leading characters are cut off when they are the three
\* backquotes, which leaves the word json of a second json fence marker
drop_fence(text) ==
    IF text # <<>> /\ text[1] = "FENCE" THEN Tail(text)
    ELSE IF text # <<>> /\ text[1] = "FENCE_JSON" THEN <<"word">> \o Tail(text)
    ELSE text

\* str.find: the first index of token, 0 when there is none (-1 in Python)
find(text, token) ==
    IF \E i \in 1..Len(text) : text[i] = token
    THEN CHOOSE i \in 1..Len(text) :
            /\ text[i] = token
            /\ \A j \in 1..(i - 1) : text[j] # token
    ELSE 0

\* str.rfind: the last index of token, 0 when there is none
rfind(text, token) ==
    IF \E i \in 1..Len(text) : text[i] = token
    THEN CHOOSE i \in 1..Len(text) :
            /\ text[i] = token
            /\ \A j \in (i + 1)..Len(text) : text[j] # token
    ELSE 0

\* lines 48-50
cut_before_first_brace(text) ==
    IF find(text, "{") # 0 THEN SubSeq(text, find(text, "{"), Len(text))
    ELSE text

cut_at_last_brace(text) ==
    IF rfind(text, "}") # 0 THEN SubSeq(text, 1, rfind(text, "}") - 1)
    ELSE text

\* lines 52-54
cut_after_last_brace(text) ==
    IF rfind(text, "}") # 0 THEN SubSeq(text, 1, rfind(text, "}"))
    ELSE text

\* json.loads accepts: white space, a value, white space, where a value is a
\* number or an object of no member or of one member whose value is a value
RECURSIVE IsJSON(_)
IsJSON(text) ==
    LET t == strip(text)
    IN \/ t = <<"1">>
       \/ /\ Len(t) >= 2
          /\ t[1] = "{"
          /\ t[Len(t)] = "}"
          /\ LET inner == strip(SubSeq(t, 2, Len(t) - 1))
             IN \/ inner = <<>>
                \/ /\ inner[1] = "key:"
                   /\ IsJSON(Tail(inner))

\* the value json.loads builds: the text without its white space
json_loads(text) == SelectSeq(text, LAMBDA tok : tok # " ")

\* lines 38-57
parse_gemini_json(gemini_response) ==
    LET text == cut_after_last_brace(cut_before_first_brace(
                    drop_fence(drop_json_fence(strip(gemini_response)))))
    IN IF IsJSON(text)
       THEN Return(json_loads(text))
       ELSE Raise("ValueError", "Failed to parse Gemini JSON: JSONDecodeError")

----------------------------------------------------------------------------
(* datetime *)

MinutesPerHour == 60

MinutesPerDay == 24 * MinutesPerHour

Naive(day, minute) ==
    [day |-> day, minute |-> minute, aware |-> FALSE, utcoffset |-> 0]

Aware(day, minute, utcoffset) ==
    [day |-> day, minute |-> minute, aware |-> TRUE, utcoffset |-> utcoffset]

\* datetime.weekday(): Monday is 0, Sunday is 6, of the wall-clock date
weekday(dt) == dt.day % 7

\* minutes on the time line: wall-clock for naive, UTC for aware datetimes
Instant(dt) == dt.day * MinutesPerDay + dt.minute - dt.utcoffset

----------------------------------------------------------------------------
(* compute_price *)

\* duration.total_seconds() / 60 of end_dt - start_dt
total_minutes(start, end) == Instant(end) - Instant(start)

\* int(hours): truncation toward zero of total_minutes / 60
IntHours(minutes) ==
    IF minutes >= 0 THEN minutes \div MinutesPerHour
                    ELSE -((-minutes) \div MinutesPerHour)

\* lines 70-74, in sixtieths of an hour
billable_hours(minutes, rule) ==
    IF Get(rule, "rounding_rule", "None") = "ceil_to_next_hour"
    THEN IF minutes = MinutesPerHour * IntHours(minutes)
         THEN MinutesPerHour * IntHours(minutes)
         ELSE MinutesPerHour * (IntHours(minutes) + 1)
    ELSE minutes

weekend_both(start, end) == weekday(start) >= 5 /\ weekday(end) >= 5

\* line 76
weekend(start, end) == weekday(start) >= 5 \/ weekday(end) >= 5

\* line 77, in tenths
multiplier(start, end, rule) ==
    IF weekend(start, end) THEN Get(rule, "weekend_multiplier", 10) ELSE 10

\* billable (sixtieths of an hour) * rate (thousandths) * multiplier (tenths)
\* is the price in units of 1/600000; a hundredth is PriceDen of them
PriceDen == MinutesPerHour * 10 * 10

clamp_none(price, cap) == price

\* line 80: min(price, tariff["daily_cap"])
clamp(price, cap) == IF price <= cap THEN price ELSE cap

\* round(num / den, 2) in hundredths, num / den being a number of hundredths
round2(num, den, tieUp) ==
    LET floor == num \div den
        rem == num % den
    IN IF 2 * rem < den THEN floor
       ELSE IF 2 * rem > den THEN floor + 1
       ELSE IF tieUp THEN floor + 1 ELSE floor

grace_strict(minutes, rule) == minutes < Get(rule, "grace_minutes", 0)

\* line 67
within_grace(minutes, rule) == minutes <= Get(rule, "grace_minutes", 0)

\* lines 64-81; tieUp says which way a halfway value falls
compute_price(start, end, rule, tieUp) ==
    IF start.aware # end.aware
    THEN Raise("TypeError", "can't subtract offset-naive and offset-aware datetimes")
    ELSE IF ~IsDict(rule)
    THEN Raise("AttributeError", "object has no attribute 'get'")
    ELSE IF within_grace(total_minutes(start, end), rule)
    THEN Return(0)
    ELSE IF "hourly_rate" \notin DOMAIN rule
    THEN Raise("KeyError", "'hourly_rate'")
    ELSE IF "daily_cap" \notin DOMAIN rule
    THEN Raise("KeyError", "'daily_cap'")
    ELSE LET price == billable_hours(total_minutes(start, end), rule)
                        * rule["hourly_rate"] * multiplier(start, end, rule)
         IN Return(round2(clamp(price, rule["daily_cap"] * (PriceDen \div 10)),
                          PriceDen, tieUp))

----------------------------------------------------------------------------
(* TARIFFS and get_tariff.  A JSON object is a function from its keys; a    *)
(* JSON number carries kind "number".                                       *)

Number(n) == [kind |-> "number", v |-> n]

\* the rule of end-to-end scenario A
RuleA ==
    [hourly_rate |-> 2000, daily_cap |-> 20000, grace_minutes |-> 15,
     rounding_rule |-> "ceil_to_next_hour"]

\* a rule without daily_cap
RuleNoCap == [hourly_rate |-> 3000]

RuleWeekend ==
    [hourly_rate |-> 2505, daily_cap |-> 50000, weekend_multiplier |-> 15]

\* a file in which some levels hold a number where a mapping is expected
\* and one rule lacks a mandatory key
LooseFile ==
    [CA |-> [downtown |-> [car |-> RuleA, truck |-> RuleNoCap,
                           bus |-> Number(5)],
             airport |-> Number(5)],
     NY |-> Number(7)]

\* a file of the documented shape
CleanFile ==
    [CA |-> [downtown |-> [car |-> RuleWeekend, bike |-> RuleA]]]

\* what tariffs.json may hold when the process starts (lines 25-26)
TariffFiles == {LooseFile, CleanFile}

\* lines 58-62: TARIFFS[state][area][vehicle_type], KeyError answered by None
get_tariff(T, state, area, vehicle_type) ==
    IF state \notin DOMAIN T THEN Return(None)
    ELSE IF ~IsDict(T[state])
    THEN Raise("TypeError", "'int' object is not subscriptable")
    ELSE IF area \notin DOMAIN T[state] THEN Return(None)
    ELSE IF ~IsDict(T[state][area])
    THEN Raise("TypeError", "'int' object is not subscriptable")
    ELSE IF vehicle_type \notin DOMAIN T[state][area] THEN Return(None)
    ELSE Return(T[state][area][vehicle_type])

store_after_setdefault(T, state, area, vehicle_type) ==
    IF state \in DOMAIN T THEN T ELSE T @@ (state :> EmptyDict)

\* lines 58-62: TARIFFS as get_tariff leaves it; it only reads
store_after_get_tariff(T, state, area, vehicle_type) == T

----------------------------------------------------------------------------
(* The pricing engine on its own: Init draws a start, an end and a tariff   *)
(* rule, ComputePrice runs compute_price on them and keeps its locals.      *)

\* the last day a datetime is drawn from; day 0 is a Monday
MaxDay == 7

\* minutes of the day the datetimes are drawn from
MinuteMarks == {0, 90, 120, 121}

PriceDatetimes == {Naive(d, m) : d \in 0..MaxDay, m \in MinuteMarks}

\* the key absent, or the key with one of the values
Optional(key, values) == {EmptyDict} \cup {key :> v : v \in values}

\* tariff rules: both mandatory keys, each optional key present or not
PriceTariffs ==
    { (("hourly_rate" :> r) @@ ("daily_cap" :> c)) @@ g @@ rr @@ w :
        r \in {-2000, 2000, 2505},
        c \in {-5000, 3995, 3999, 20000},
        g \in Optional("grace_minutes", {-120, 120}),
        rr \in Optional("rounding_rule", {"ceil_to_next_hour", "exact"}),
        w \in Optional("weekend_multiplier", {0, 15}) }

\* no request is being handled
NoRequests ==
    /\ env = EmptyDict
    /\ raised = EmptyDict
    /\ pc = EmptyDict
    /\ parsed = EmptyDict
    /\ start_dt = EmptyDict
    /\ end_dt = EmptyDict
    /\ tariff = EmptyDict
    /\ response = EmptyDict

InitPrice ==
    /\ TARIFFS = EmptyDict
    /\ NoRequests
    /\ args \in [fn : {"compute_price"}, start_dt : PriceDatetimes,
                 end_dt : PriceDatetimes, tariff : PriceTariffs]
    /\ result = Unset

\* the locals compute_price has assigned when it returns, and what it returns
PriceFrame(start, end, rule, tieUp) ==
    LET minutes == total_minutes(start, end)
        early == [total_minutes |-> minutes,
                  ret |-> compute_price(start, end, rule, tieUp)]
    IN IF within_grace(minutes, rule)
       THEN early
       ELSE early @@ [billable_hours |-> billable_hours(minutes, rule),
                      multiplier |-> multiplier(start, end, rule)]

ComputePrice ==
    /\ args.fn = "compute_price"
    /\ result = Unset
    /\ \E tieUp \in BOOLEAN :
         result' = PriceFrame(args.start_dt, args.end_dt, args.tariff, tieUp)
    /\ UNCHANGED <<args, handlerVars>>

NextPrice == ComputePrice

SpecPrice == InitPrice /\ [][NextPrice]_vars

----------------------------------------------------------------------------
(* Properties of compute_price, stated over the arguments and the outcome   *)

PriceCalled == args.fn = "compute_price" /\ result # Unset

\* end - start in minutes, from the arguments
ArgMinutes ==
    (args.end_dt.day - args.start_dt.day) * 1440
        + args.end_dt.minute - args.start_dt.minute

\* the tariff's grace_minutes, 0 when the key is absent
ArgGrace ==
    IF "grace_minutes" \in DOMAIN args.tariff
    THEN args.tariff["grace_minutes"] ELSE 0

ArgCeilRule ==
    /\ "rounding_rule" \in DOMAIN args.tariff
    /\ args.tariff["rounding_rule"] = "ceil_to_next_hour"

\* the mathematical ceiling of a / b, b > 0
CeilDiv(a, b) == -((-a) \div b)

IsWeekendDay(day) == day % 7 \in {5, 6}

\* the multiplier the tariff asks for, in tenths
ArgMultiplier ==
    IF IsWeekendDay(args.start_dt.day) \/ IsWeekendDay(args.end_dt.day)
    THEN IF "weekend_multiplier" \in DOMAIN args.tariff
         THEN args.tariff["weekend_multiplier"] ELSE 10
    ELSE 10

Abs(x) == IF x < 0 THEN -x ELSE x

\* price (hundredths) is the nearest hundredth to
\* min(billable * hourly_rate * mult, daily_cap)
IsRoundedCappedPrice(price, billable, mult) ==
    LET exact == billable * args.tariff["hourly_rate"] * mult
        cap == args.tariff["daily_cap"] * 600
        capped == IF exact <= cap THEN exact ELSE cap
    IN 2 * Abs(price * 6000 - capped) <= 6000

\* C1, as stated: whatever the start, the end and the tariff (negative values
\* and durations within the grace period included), the value compute_price
\* returns is at most the tariff's daily_cap.
C1_PriceAtMostCap ==
    PriceCalled => result.ret.v * 10 <= args.tariff["daily_cap"]

\* C1, amended: a duration above the grace period is priced at most at
\* daily_cap rounded to two decimals (so at most daily_cap when daily_cap has
\* no more than two decimals); a duration within the grace period is priced 0,
\* which is at most daily_cap exactly when daily_cap is not negative.
C1_PriceAtMostRoundedCap ==
    PriceCalled =>
        /\ ArgMinutes > ArgGrace =>
              /\ result.ret.v <= (args.tariff["daily_cap"] + 5) \div 10
              /\ args.tariff["daily_cap"] % 10 = 0 =>
                    result.ret.v * 10 <= args.tariff["daily_cap"]
        /\ ArgMinutes <= ArgGrace =>
              /\ result.ret.v = 0
              /\ (result.ret.v * 10 <= args.tariff["daily_cap"])
                    <=> (args.tariff["daily_cap"] >= 0)

\* a long stay whose uncapped price exceeds the cap is returned as the cap
C1_Witness ==
    /\ PriceCalled
    /\ ArgMinutes > ArgGrace
    /\ args.tariff["daily_cap"] = 20000
    /\ result.billable_hours * args.tariff["hourly_rate"] * result.multiplier
          > 20000 * 600
    /\ result.ret.v = 2000

\* C2: a duration of at most grace_minutes (0 when absent) returns exactly 0
\* and nothing else of the tariff is used; a longer duration is priced by the
\* rounding, rate, multiplier and cap computation.
C2_GraceIsFree ==
    PriceCalled =>
        /\ ArgMinutes <= ArgGrace =>
              /\ result.ret = Return(0)
              /\ DOMAIN result = {"total_minutes", "ret"}
        /\ ArgMinutes > ArgGrace =>
              /\ DOMAIN result =
                    {"total_minutes", "ret", "billable_hours", "multiplier"}
              /\ result.ret.kind = "return"
              /\ IsRoundedCappedPrice(result.ret.v, result.billable_hours,
                                      result.multiplier)

\* a positive duration exactly equal to grace_minutes, at a positive rate
C2_Witness ==
    /\ PriceCalled
    /\ "grace_minutes" \in DOMAIN args.tariff
    /\ ArgMinutes = 120
    /\ ArgGrace = 120
    /\ args.tariff["hourly_rate"] > 0
    /\ args.tariff["daily_cap"] > 0
    /\ result.ret = Return(0)

\* C3: under "ceil_to_next_hour" every duration above the grace period is
\* billed duration/60 rounded up to the next whole hour, a whole number of
\* hours unchanged; under any other or no rule the fractional hours are billed.
C3_CeilToNextHour ==
    (PriceCalled /\ "billable_hours" \in DOMAIN result) =>
        result.billable_hours =
            IF ArgCeilRule THEN 60 * CeilDiv(ArgMinutes, 60) ELSE ArgMinutes

\* C3 for durations that are not negative
C3_CeilOfNonNegative ==
    (PriceCalled /\ "billable_hours" \in DOMAIN result /\ ArgMinutes >= 0) =>
        result.billable_hours =
            IF ArgCeilRule THEN 60 * CeilDiv(ArgMinutes, 60) ELSE ArgMinutes

\* C4: a priced session is multiplied by weekend_multiplier (1.0 when absent)
\* if the start or the end falls on a Saturday or Sunday, and by exactly 1.0
\* otherwise, whatever days lie between the two.
C4_WeekendMultiplier ==
    (PriceCalled /\ ArgMinutes > ArgGrace) =>
        /\ result.multiplier = ArgMultiplier
        /\ IsRoundedCappedPrice(result.ret.v, result.billable_hours,
                                ArgMultiplier)

\* a stay from Friday to Saturday is multiplied although it starts on a weekday
C4_Witness ==
    /\ PriceCalled
    /\ ArgMinutes > ArgGrace
    /\ args.start_dt.day = 4
    /\ args.end_dt.day = 5
    /\ "weekend_multiplier" \in DOMAIN args.tariff
    /\ args.tariff["weekend_multiplier"] = 15
    /\ result.multiplier = 15
    /\ result.ret.v > 0

\* a stay from Friday to Monday spans a weekend and is not multiplied
C4_SpanningWeekend ==
    /\ PriceCalled
    /\ ArgMinutes > ArgGrace
    /\ args.start_dt.day = 4
    /\ args.end_dt.day = 7
    /\ "weekend_multiplier" \in DOMAIN args.tariff
    /\ args.tariff["weekend_multiplier"] = 15
    /\ result.multiplier = 10

----------------------------------------------------------------------------
(* The response extractor on its own: Init draws a raw text,                *)
(* ParseGeminiJson runs parse_gemini_json on it.                            *)

\* the longest raw text, in tokens
MaxLen == 5

Texts == UNION {[1..n -> Tokens] : n \in 0..MaxLen}

InitParse ==
    /\ TARIFFS = EmptyDict
    /\ NoRequests
    /\ args \in [fn : {"parse_gemini_json"}, gemini_response : Texts]
    /\ result = Unset

ParseGeminiJson ==
    /\ args.fn = "parse_gemini_json"
    /\ result = Unset
    /\ result' = parse_gemini_json(args.gemini_response)
    /\ UNCHANGED <<args, handlerVars>>

NextParse == ParseGeminiJson

SpecParse == InitParse /\ [][NextParse]_vars

ParseCalled == args.fn = "parse_gemini_json" /\ result # Unset

\* the raw text after trimming and fence-marker removal
ArgUnfenced == drop_fence(drop_json_fence(strip(args.gemini_response)))

HasToken(text, token) == \E i \in 1..Len(text) : text[i] = token

\* the substring from the first '{' to the last '}', empty when there is none
BraceSubstring(text) ==
    LET opens == {i \in 1..Len(text) : text[i] = "{"}
        closes == {i \in 1..Len(text) : text[i] = "}"}
    IN IF opens = {} \/ closes = {} THEN <<>>
       ELSE SubSeq(text,
                   CHOOSE i \in opens : \A j \in opens : i <= j,
                   CHOOSE i \in closes : \A j \in closes : i >= j)

\* C8, as stated: a text in which no '{' or no '}' is found, or whose
\* substring from the first '{' to the last '}' is not valid JSON, fails with
\* a ValueError; a value is returned only when that substring parses.
C8_NoBraceFails ==
    ParseCalled =>
        /\ (\/ ~HasToken(ArgUnfenced, "{")
            \/ ~HasToken(ArgUnfenced, "}")
            \/ ~IsJSON(BraceSubstring(ArgUnfenced)))
              => (result.kind = "raise" /\ result.exc = "ValueError")
        /\ result.kind = "return" => IsJSON(BraceSubstring(ArgUnfenced))

\* C8, amended: a text in which only one of '{' and '}' is found fails, and so
\* does one whose substring from the first '{' to the last '}' is not valid
\* JSON; a text in which neither is found is parsed whole, and fails exactly
\* when it is not valid JSON.  Every failure is a ValueError, and a value is
\* returned exactly when the text that is left parses as JSON.
C8_ParsesWhatIsLeft ==
    ParseCalled =>
        LET hasOpen == HasToken(ArgUnfenced, "{")
            hasClose == HasToken(ArgUnfenced, "}")
            left == IF hasOpen /\ hasClose THEN BraceSubstring(ArgUnfenced)
                    ELSE ArgUnfenced
        IN /\ hasOpen # hasClose => result.kind = "raise"
           /\ (hasOpen /\ hasClose /\ ~IsJSON(BraceSubstring(ArgUnfenced)))
                 => result.kind = "raise"
           /\ result.kind = "return" <=> (hasOpen = hasClose /\ IsJSON(left))
           /\ result.kind = "return" =>
                 result.v = SelectSeq(left, LAMBDA tok : tok # " ")
           /\ result.kind = "raise" => result.exc = "ValueError"

\* prose around an object whose member has no value: a parse error
C8_Witness ==
    /\ ParseCalled
    /\ args.gemini_response = <<"word", "{", "key:", "}", "word">>
    /\ result.kind = "raise"
    /\ result.exc = "ValueError"

\* a fenced object is returned as the bare object is
C8_FencedObject ==
    /\ ParseCalled
    /\ args.gemini_response = <<"FENCE_JSON", " ", "{", "}", "FENCE">>
    /\ result = Return(<<"{", "}">>)

----------------------------------------------------------------------------
(* The tariff store lookup on its own: Init draws the file and the keys,    *)
(* GetTariff runs get_tariff on them.                                       *)

States == {"CA", "NY", "ZZ"}

Areas == {"downtown", "airport", "nowhere"}

VehicleTypes == {"car", "bike", "truck", "bus", "van"}

InitLookup ==
    /\ TARIFFS \in TariffFiles
    /\ NoRequests
    /\ args \in [fn : {"get_tariff"}, state : States, area : Areas,
                 vehicle_type : VehicleTypes]
    /\ result = Unset

GetTariff ==
    /\ args.fn = "get_tariff"
    /\ result = Unset
    /\ result' = get_tariff(TARIFFS, args.state, args.area, args.vehicle_type)
    /\ TARIFFS' = store_after_get_tariff(TARIFFS, args.state, args.area,
                                         args.vehicle_type)
    /\ UNCHANGED <<args, requestVars>>

NextLookup == GetTariff

SpecLookup == InitLookup /\ [][NextLookup]_vars

LookupCalled == args.fn = "get_tariff" /\ result # Unset

\* the key path state / area / vehicle_type leads through mappings to a value
PathExists(T, state, area, vehicle_type) ==
    /\ state \in DOMAIN T
    /\ "kind" \notin DOMAIN T[state]
    /\ area \in DOMAIN T[state]
    /\ "kind" \notin DOMAIN T[state][area]
    /\ vehicle_type \in DOMAIN T[state][area]

\* C5: whenever the key path does not exist at one of the three levels, be
\* it an unknown key or a level that holds no mapping, get_tariff returns
\* None and raises nothing.
C5_AbsentNeverRaises ==
    (LookupCalled
        /\ ~PathExists(TARIFFS, args.state, args.area, args.vehicle_type))
    => result = Return(None)

\* C5 for key paths that only meet mappings
C5_UnknownKeyIsNone ==
    (LookupCalled
        /\ ~PathExists(TARIFFS, args.state, args.area, args.vehicle_type)
        /\ \/ args.state \notin DOMAIN TARIFFS
           \/ /\ IsDict(TARIFFS[args.state])
              /\ \/ args.area \notin DOMAIN TARIFFS[args.state]
                 \/ IsDict(TARIFFS[args.state][args.area]))
    => result = Return(None)

----------------------------------------------------------------------------
(* predict_parking_price.  A request is handled in steps; an exception     *)
(* raised inside the try block ends the request in the same step, in the   *)
(* except clause.                                                           *)

\* a str: the fragments an f-string is put together from
Str(fragments) == [kind |-> "str", v |-> fragments]

\* a JSON list of strings
List(items) == [kind |-> "list", v |-> items]

\* lines 87-89: the keys of the request body, in the order they are read
BodyFields ==
    <<"start_date", "start_time", "end_date", "end_time", "area", "state",
      "vehicle_type">>

FullBody == {BodyFields[i] : i \in 1..Len(BodyFields)}

\* the first key of BodyFields the body lacks, 0 when it has them all
FirstMissing(body) ==
    IF \A i \in 1..Len(BodyFields) : BodyFields[i] \in body THEN 0
    ELSE CHOOSE i \in 1..Len(BodyFields) :
            /\ BodyFields[i] \notin body
            /\ \A j \in 1..(i - 1) : BodyFields[j] \in body

\* datetime.fromisoformat on the strings the provider may send
IsoTable ==
    [s \in {"2024-01-05T10:00:00", "2024-01-05T10:10:00",
            "2024-01-05T11:30:00", "2024-01-06T23:00:00",
            "2024-01-08T09:00:00", "2024-01-05T10:00:00+05:30"} |->
        CASE s = "2024-01-05T10:00:00" -> Naive(4, 600)
          [] s = "2024-01-05T10:10:00" -> Naive(4, 610)
          [] s = "2024-01-05T11:30:00" -> Naive(4, 690)
          [] s = "2024-01-06T23:00:00" -> Naive(5, 1380)
          [] s = "2024-01-08T09:00:00" -> Naive(7, 540)
          [] s = "2024-01-05T10:00:00+05:30" -> Aware(4, 600, 330)]

\* lines 109-110
fromisoformat(date_string) ==
    IF date_string \in DOMAIN IsoTable
    THEN Return(IsoTable[date_string])
    ELSE Raise("ValueError", "Invalid isoformat string: " \o date_string)

\* the Python value of what json.loads built: the number, the empty object,
\* or the object whose members the provider sent (doc)
Decode(value, doc) ==
    IF value = <<"1">> THEN Number(1)
    ELSE IF value = <<"{", "}">> THEN EmptyDict
    ELSE doc

\* bool(x) is False: None, an empty dict, the number 0
Falsy(x) ==
    \/ x = None
    \/ x = EmptyDict
    \/ ("kind" \in DOMAIN x /\ x.kind = "number" /\ x.v = 0)

\* line 125: except Exception
catches(exc) ==
    exc \in {"ProviderError", "ValueError", "KeyError", "TypeError",
             "AttributeError"}

errors_not_empty(validation) ==
    "errors" \in DOMAIN validation /\ validation["errors"] # <<>>

\* line 105: not parsed["validation"]["is_valid"]
is_invalid(validation) == ~validation["is_valid"]

\* the handler returns (body, status)
Respond(r, status, body) ==
    /\ pc' = [pc EXCEPT ![r] = "Responded"]
    /\ response' = [response EXCEPT ![r] = [status |-> status, body |-> body]]
    /\ UNCHANGED raised

\* an exception is raised inside the try block: lines 125-126 answer it, or
\* it leaves the handler
Throw(r, e) ==
    /\ raised' = [raised EXCEPT ![r] = e]
    /\ IF catches(e.exc)
       THEN /\ pc' = [pc EXCEPT ![r] = "Responded"]
            /\ response' = [response EXCEPT ![r] =
                  [status |-> 500, body |-> [error |-> Str(<<e.msg>>)]]]
       ELSE /\ pc' = [pc EXCEPT ![r] = "Escaped"]
            /\ UNCHANGED response

\* lines 85-100: the prompts are built from the body, outside the try block
BuildPrompt(r) ==
    /\ pc[r] = "Received"
    /\ IF FirstMissing(env[r].body) # 0
       THEN /\ raised' = [raised EXCEPT ![r] =
                  Raise("KeyError",
                        "'" \o BodyFields[FirstMissing(env[r].body)] \o "'")]
            /\ pc' = [pc EXCEPT ![r] = "Escaped"]
       ELSE /\ pc' = [pc EXCEPT ![r] = "PromptBuilt"]
            /\ UNCHANGED raised
    /\ UNCHANGED <<TARIFFS, env, parsed, start_dt, end_dt, tariff, response,
                   args, result>>

\* line 103: call_gemini returns the provider's text or raises
CallGemini(r) ==
    /\ pc[r] = "PromptBuilt"
    /\ IF env[r].reply.kind = "error"
       THEN Throw(r, Raise("ProviderError", "provider call failed"))
       ELSE /\ pc' = [pc EXCEPT ![r] = "ModelCalled"]
            /\ UNCHANGED <<response, raised>>
    /\ UNCHANGED <<TARIFFS, env, parsed, start_dt, end_dt, tariff, args,
                   result>>

\* line 104
Extract(r) ==
    /\ pc[r] = "ModelCalled"
    /\ LET got == parse_gemini_json(env[r].reply.text)
       IN IF got.kind = "raise"
          THEN Throw(r, got) /\ UNCHANGED parsed
          ELSE /\ parsed' = [parsed EXCEPT ![r] =
                     Decode(got.v, env[r].reply.doc)]
               /\ pc' = [pc EXCEPT ![r] = "Extracted"]
               /\ UNCHANGED <<response, raised>>
    /\ UNCHANGED <<TARIFFS, env, start_dt, end_dt, tariff, args, result>>

\* lines 105-106
Validate(r) ==
    /\ pc[r] = "Extracted"
    /\ IF ~IsDict(parsed[r])
       THEN Throw(r, Raise("TypeError", "'int' object is not subscriptable"))
       ELSE IF "validation" \notin DOMAIN parsed[r]
       THEN Throw(r, Raise("KeyError", "'validation'"))
       ELSE IF "is_valid" \notin DOMAIN parsed[r]["validation"]
       THEN Throw(r, Raise("KeyError", "'is_valid'"))
       ELSE IF is_invalid(parsed[r]["validation"])
       THEN IF "errors" \notin DOMAIN parsed[r]["validation"]
            THEN Throw(r, Raise("KeyError", "'errors'"))
            ELSE Respond(r, 400,
                    [error |-> List(parsed[r]["validation"]["errors"])])
       ELSE /\ pc' = [pc EXCEPT ![r] = "Validated"]
            /\ UNCHANGED <<response, raised>>
    /\ UNCHANGED <<TARIFFS, env, parsed, start_dt, end_dt, tariff, args,
                   result>>

\* the key of parsed["inputs"] that lines 109-113 miss first, "" when none
MissingInput(inputs) ==
    IF "start_datetime" \notin DOMAIN inputs THEN "start_datetime"
    ELSE IF fromisoformat(inputs["start_datetime"]).kind = "raise" THEN ""
    ELSE IF "end_datetime" \notin DOMAIN inputs THEN "end_datetime"
    ELSE IF fromisoformat(inputs["end_datetime"]).kind = "raise" THEN ""
    ELSE IF "state" \notin DOMAIN inputs THEN "state"
    ELSE IF "area" \notin DOMAIN inputs THEN "area"
    ELSE IF "vehicle_type" \notin DOMAIN inputs THEN "vehicle_type"
    ELSE ""

\* lines 109-113
ReadInputs(r) ==
    /\ pc[r] = "Validated"
    /\ IF "inputs" \notin DOMAIN parsed[r]
       THEN Throw(r, Raise("KeyError", "'inputs'"))
               /\ UNCHANGED <<start_dt, end_dt>>
       ELSE LET inputs == parsed[r]["inputs"]
            IN IF MissingInput(inputs) # ""
               THEN Throw(r, Raise("KeyError",
                                   "'" \o MissingInput(inputs) \o "'"))
                       /\ UNCHANGED <<start_dt, end_dt>>
               ELSE IF fromisoformat(inputs["start_datetime"]).kind = "raise"
               THEN Throw(r, fromisoformat(inputs["start_datetime"]))
                       /\ UNCHANGED <<start_dt, end_dt>>
               ELSE IF fromisoformat(inputs["end_datetime"]).kind = "raise"
               THEN Throw(r, fromisoformat(inputs["end_datetime"]))
                       /\ UNCHANGED <<start_dt, end_dt>>
               ELSE /\ start_dt' = [start_dt EXCEPT ![r] =
                          fromisoformat(inputs["start_datetime"]).v]
                    /\ end_dt' = [end_dt EXCEPT ![r] =
                          fromisoformat(inputs["end_datetime"]).v]
                    /\ pc' = [pc EXCEPT ![r] = "InputsRead"]
                    /\ UNCHANGED <<response, raised>>
    /\ UNCHANGED <<TARIFFS, env, parsed, tariff, args, result>>

\* lines 115-117
Lookup(r) ==
    /\ pc[r] = "InputsRead"
    /\ LET inputs == parsed[r]["inputs"]
           got == get_tariff(TARIFFS, inputs["state"], inputs["area"],
                             inputs["vehicle_type"])
       IN /\ TARIFFS' = store_after_get_tariff(TARIFFS, inputs["state"],
                            inputs["area"], inputs["vehicle_type"])
          /\ IF got.kind = "raise"
             THEN Throw(r, got) /\ UNCHANGED tariff
             ELSE /\ tariff' = [tariff EXCEPT ![r] = got.v]
                  /\ IF Falsy(got.v)
                     THEN Respond(r, 400,
                             [error |-> Str(<<"No tariff found for ",
                                 inputs["state"], " / ", inputs["area"],
                                 " / ", inputs["vehicle_type"]>>)])
                     ELSE /\ pc' = [pc EXCEPT ![r] = "TariffResolved"]
                          /\ UNCHANGED <<response, raised>>
    /\ UNCHANGED <<env, parsed, start_dt, end_dt, args, result>>

\* lines 119-124
Price(r) ==
    /\ pc[r] = "TariffResolved"
    /\ \E tieUp \in BOOLEAN :
         LET got == compute_price(start_dt[r], end_dt[r], tariff[r], tieUp)
         IN IF got.kind = "raise"
            THEN Throw(r, got)
            ELSE Respond(r, 200,
                    [inputs |-> parsed[r]["inputs"], tariff |-> tariff[r],
                     price |-> got.v])
    /\ UNCHANGED <<TARIFFS, env, parsed, start_dt, end_dt, tariff, args,
                   result>>

Next ==
    \/ \E r \in DOMAIN pc : BuildPrompt(r)
    \/ \E r \in DOMAIN pc : CallGemini(r)
    \/ \E r \in DOMAIN pc : Extract(r)
    \/ \E r \in DOMAIN pc : Validate(r)
    \/ \E r \in DOMAIN pc : ReadInputs(r)
    \/ \E r \in DOMAIN pc : Lookup(r)
    \/ \E r \in DOMAIN pc : Price(r)

----------------------------------------------------------------------------
(* What a request meets: its body, and the provider's answer to its prompt *)

Validations ==
    { [is_valid |-> TRUE, errors |-> <<>>],
      [is_valid |-> FALSE, errors |-> <<>>],
      [is_valid |-> FALSE, errors |-> <<"invalid area">>],
      [is_valid |-> FALSE, errors |-> <<"end before start", "invalid area">>],
      [is_valid |-> FALSE],
      [errors |-> <<>>] }

StartStrings ==
    {"2024-01-05T10:00:00", "2024-01-06T23:00:00",
     "2024-01-05T10:00:00+05:30", "tomorrow 10am"}

EndStrings ==
    {"2024-01-05T10:10:00", "2024-01-05T11:30:00", "2024-01-08T09:00:00",
     "25:61"}

\* parsed["inputs"]: start_datetime and state may be missing
InputsChoices ==
    { s @@ st @@ [end_datetime |-> e, area |-> a, vehicle_type |-> v] :
        s \in Optional("start_datetime", StartStrings),
        st \in Optional("state", States),
        e \in EndStrings, a \in Areas, v \in VehicleTypes }

\* the members of the object the provider sends
Docs ==
    { v @@ i : v \in Optional("validation", Validations),
               i \in Optional("inputs", InputsChoices) }

\* texts that hold an object with members: bare, fenced, in prose
ObjectTexts ==
    { <<"{", "key:", "1", "}">>,
      <<"FENCE_JSON", " ", "{", "key:", "1", "}", " ", "FENCE">>,
      <<"word", " ", "{", "key:", "1", "}", " ", "word">> }

\* texts that hold none: prose, a number, an empty object, a cut-off object
OtherTexts ==
    { <<"word", " ", "word">>, <<"1">>, <<"FENCE", "{", "}", "FENCE">>,
      <<"{", "key:", "1">> }

Replies ==
    {[kind |-> "error", text |-> <<>>, doc |-> EmptyDict]}
    \cup {[kind |-> "text", text |-> t, doc |-> EmptyDict] : t \in OtherTexts}
    \cup {[kind |-> "text", text |-> t, doc |-> d] :
             t \in ObjectTexts, d \in Docs}

\* no provider call is made for a body that lacks a key
NoReply == [kind |-> "none", text |-> <<>>, doc |-> EmptyDict]

ShortBodies ==
    { {}, FullBody \ {"start_date"}, FullBody \ {"area", "vehicle_type"} }

Envs ==
    {[body |-> b, reply |-> NoReply] : b \in ShortBodies}
    \cup {[body |-> FullBody, reply |-> rp] : rp \in Replies}

\* requests that have arrived and are not yet handled
Arrived(requests, envs) ==
    /\ env \in [requests -> envs]
    /\ pc = [r \in requests |-> "Received"]
    /\ parsed = [r \in requests |-> Unset]
    /\ start_dt = [r \in requests |-> Unset]
    /\ end_dt = [r \in requests |-> Unset]
    /\ tariff = [r \in requests |-> Unset]
    /\ response = [r \in requests |-> Unset]
    /\ raised = [r \in requests |-> Unset]

\* one request, whatever it meets
Init ==
    /\ TARIFFS \in TariffFiles
    /\ Arrived({1}, Envs)
    /\ args = Unset
    /\ result = Unset

Spec == Init /\ [][Next]_vars

----------------------------------------------------------------------------
(* Properties of the handler *)

Requests == DOMAIN pc

\* r has got past line 105
PastValidation(r) ==
    pc[r] \notin {"Received", "PromptBuilt", "ModelCalled", "Extracted"}

\* the extracted model output of r has validation.is_valid = false
SaidInvalid(r) ==
    /\ "kind" \notin DOMAIN parsed[r]
    /\ "validation" \in DOMAIN parsed[r]
    /\ "is_valid" \in DOMAIN parsed[r]["validation"]
    /\ parsed[r]["validation"]["is_valid"] = FALSE

HasErrors(r) == "errors" \in DOMAIN parsed[r]["validation"]

\* r ended in 400 with the errors list, and nothing was parsed or looked up
Rejected(r) ==
    /\ pc[r] = "Responded"
    /\ response[r].status = 400
    /\ HasErrors(r)
    /\ response[r].body =
          [error |-> [kind |-> "list", v |-> parsed[r]["validation"]["errors"]]]
    /\ start_dt[r] = Unset
    /\ end_dt[r] = Unset
    /\ tariff[r] = Unset
    /\ raised[r] = Unset

\* C6, as stated: a request whose extracted model output has is_valid = false
\* ends in 400 with body {error: validation.errors}, with no timestamp
\* parsed, no tariff looked up and no price computed; never in 200 or 500.
C6_InvalidIs400 ==
    \A r \in Requests : (PastValidation(r) /\ SaidInvalid(r)) => Rejected(r)

\* C6, amended: a request whose extracted model output has is_valid = false
\* and holds validation.errors ends in 400 with body {error:
\* validation.errors}, the list as it is, and nothing further is done; when
\* errors is missing, reading it raises KeyError and the request ends in 500.
C6_InvalidWithErrorsIs400 ==
    \A r \in Requests :
        (PastValidation(r) /\ SaidInvalid(r)) =>
            IF HasErrors(r) THEN Rejected(r)
            ELSE /\ pc[r] = "Responded"
                 /\ response[r].status = 500
                 /\ raised[r] = Raise("KeyError", "'errors'")
                 /\ start_dt[r] = Unset
                 /\ tariff[r] = Unset

\* scenario B: is_valid = false with errors ["invalid area"]
C6_Witness ==
    \E r \in Requests :
        /\ PastValidation(r)
        /\ SaidInvalid(r)
        /\ "inputs" \in DOMAIN parsed[r]
        /\ response[r] =
              [status |-> 400,
               body |-> [error |-> [kind |-> "list", v |-> <<"invalid area">>]]]

\* r passed validation, its timestamps parsed and lines 115-117 have run
PastLookup(r) ==
    /\ start_dt[r] # Unset
    /\ end_dt[r] # Unset
    /\ pc[r] \notin {"Received", "PromptBuilt", "ModelCalled", "Extracted",
                     "Validated", "InputsRead"}

\* the tariff store has a rule configured for the triple of r
RuleConfigured(r) ==
    PathExists(TARIFFS, parsed[r]["inputs"]["state"],
               parsed[r]["inputs"]["area"],
               parsed[r]["inputs"]["vehicle_type"])

NoTariffResponse(r) ==
    [status |-> 400,
     body |-> [error |-> [kind |-> "str",
                          v |-> <<"No tariff found for ",
                                  parsed[r]["inputs"]["state"], " / ",
                                  parsed[r]["inputs"]["area"], " / ",
                                  parsed[r]["inputs"]["vehicle_type"]>>]]]

\* C7: a validated request whose timestamps parsed ends in 400 "No tariff
\* found for state / area / vehicle_type" when, and only when, the store has
\* no rule for the triple; with a rule configured it ends in 200 with
\* {inputs, tariff, price}.
C7_NoTariffIffNoRule ==
    \A r \in Requests :
        PastLookup(r) =>
            /\ (~RuleConfigured(r)) <=> (response[r] = NoTariffResponse(r))
            /\ (RuleConfigured(r) /\ pc[r] # "TariffResolved") =>
                  /\ pc[r] = "Responded"
                  /\ response[r].status = 200
                  /\ DOMAIN response[r].body = {"inputs", "tariff", "price"}

\* C7 where every level of the store on the key path is a mapping, the rule
\* found is complete and both timestamps are naive
C7_OverMappings ==
    \A r \in Requests :
        (/\ PastLookup(r)
         /\ ~start_dt[r].aware
         /\ ~end_dt[r].aware
         /\ get_tariff(TARIFFS, parsed[r]["inputs"]["state"],
                       parsed[r]["inputs"]["area"],
                       parsed[r]["inputs"]["vehicle_type"]).kind = "return"
         /\ RuleConfigured(r) => {"hourly_rate", "daily_cap"} \subseteq
               DOMAIN TARIFFS[parsed[r]["inputs"]["state"]]
                             [parsed[r]["inputs"]["area"]]
                             [parsed[r]["inputs"]["vehicle_type"]])
        =>
            /\ (~RuleConfigured(r)) <=> (response[r] = NoTariffResponse(r))
            /\ (RuleConfigured(r) /\ pc[r] # "TariffResolved") =>
                  /\ pc[r] = "Responded"
                  /\ response[r].status = 200
                  /\ DOMAIN response[r].body = {"inputs", "tariff", "price"}

\* scenario A: a 90-minute weekday stay under RuleA costs 4.00
C7_ScenarioA ==
    \E r \in Requests :
        /\ TARIFFS = LooseFile
        /\ pc[r] = "Responded"
        /\ start_dt[r] = Naive(4, 600)
        /\ end_dt[r] = Naive(4, 690)
        /\ response[r].status = 200
        /\ response[r].body.tariff = RuleA
        /\ response[r].body.price = 400

\* r ended in 500 whose body is {error: the message of the exception}
Answered500(r) ==
    /\ pc[r] = "Responded"
    /\ response[r] =
          [status |-> 500,
           body |-> [error |-> [kind |-> "str", v |-> <<raised[r].msg>>]]]

\* C9: every failure while a request is handled, a missing field of the
\* request body included, is caught by the handler and answered with 500 and
\* {error: message}; it never leaves the handler and never ends in 200 or 400.
C9_EveryFailureIs500 ==
    \A r \in Requests : raised[r] # Unset => Answered500(r)

\* C9 for the failures raised from the provider call on
C9_FailureInTryIs500 ==
    \A r \in Requests :
        (raised[r] # Unset /\ env[r].body = FullBody) => Answered500(r)

----------------------------------------------------------------------------
(* Concurrent requests: the framework runs the handler once per request,    *)
(* and the steps of different requests interleave.                          *)

\* the number of requests in flight
NumReq == 2

ValidDoc(start, end, state, area, vehicle_type) ==
    [validation |-> [is_valid |-> TRUE, errors |-> <<>>],
     inputs |-> [start_datetime |-> start, end_datetime |-> end,
                 state |-> state, area |-> area,
                 vehicle_type |-> vehicle_type]]

TextReply(text, doc) == [kind |-> "text", text |-> text, doc |-> doc]

\* one request of each outcome
ConcEnvs ==
    { [body |-> {}, reply |-> NoReply],
      [body |-> FullBody,
       reply |-> [kind |-> "error", text |-> <<>>, doc |-> EmptyDict]],
      [body |-> FullBody,
       reply |-> TextReply(<<"word", " ", "word">>, EmptyDict)],
      [body |-> FullBody,
       reply |-> TextReply(<<"{", "key:", "1", "}">>,
                    [validation |-> [is_valid |-> FALSE,
                                     errors |-> <<"invalid area">>]])],
      [body |-> FullBody,
       reply |-> TextReply(<<"{", "key:", "1", "}">>,
                    ValidDoc("2024-01-05T10:00:00", "2024-01-05T11:30:00",
                             "ZZ", "downtown", "car"))],
      [body |-> FullBody,
       reply |-> TextReply(<<"{", "key:", "1", "}">>,
                    ValidDoc("2024-01-05T10:00:00", "2024-01-05T11:30:00",
                             "CA", "airport", "car"))],
      [body |-> FullBody,
       reply |-> TextReply(<<"FENCE_JSON", " ", "{", "key:", "1", "}", " ",
                             "FENCE">>,
                    ValidDoc("2024-01-05T10:00:00", "2024-01-05T11:30:00",
                             "CA", "downtown", "car"))] }

InitConc ==
    /\ TARIFFS \in TariffFiles
    /\ Arrived(1..NumReq, ConcEnvs)
    /\ args = Unset
    /\ result = Unset

SpecConc == InitConc /\ [][Next]_vars

\* the locals of request r
Locals(r) ==
    <<env[r], pc[r], parsed[r], start_dt[r], end_dt[r], tariff[r],
      response[r], raised[r]>>

\* C10: whatever the requests and however their steps interleave, no step of
\* handling a request writes TARIFFS, and a step of one request leaves what
\* belongs to every other request as it is.
C10_TariffsReadOnly ==
    [][/\ TARIFFS' = TARIFFS
       /\ \A r \in Requests :
             pc'[r] = pc[r] => Locals(r)' = Locals(r)]_vars

\* two requests were handled side by side, one ended in 200 and the other
\* found no tariff and ended in 400
C10_Witness ==
    /\ TARIFFS = LooseFile
    /\ \E r, q \in Requests :
          /\ r # q
          /\ pc[r] = "Responded"
          /\ response[r].status = 200
          /\ tariff[q] = None
          /\ pc[q] = "Responded"
          /\ response[q].status = 400

====
